---- MODULE Spec2Model ----
(***************************************************************************)
(* Model of dbcontroller/controller.py: the MQTT callback on_message, the  *)
(* three handlers it dispatches to (handle_entry, handle_departure,        *)
(* handle_registration_response) and the PostgreSQL tables they read and   *)
(* write (parking_user, card, gate_log).                                   *)
(*                                                                         *)
(* One action delivers one message and runs on_message to completion: the  *)
(* paho loop calls the callback synchronously, one message at a time.      *)
(*                                                                         *)
(* Every handler works on a transaction: statements change a working copy  *)
(* (tx) of the committed store (st); conn.commit() makes the working copy  *)
(* the committed store, conn.rollback() and conn.close() without a commit  *)
(* drop it.  A table is a set of rows (gate_log, which has no key among the *)
(* columns the controller writes, a bag of rows).                          *)
(* Ids (RETURNING id) are fresh: never an id a committed row has or had;    *)
(* the two tables hand out ids from disjoint ranges, so that a card id is  *)
(* never taken for a user id.                                              *)
(*                                                                         *)
(* Datastore failures: the input `fault` makes the fault-th datastore call *)
(* of the handler raise (1 = connect, 2.. = the statements in order, the   *)
(* last = commit); 0 means no call fails on its own.  Unique-key           *)
(* violations (parking_user.username, card.card_code) are raised by the    *)
(* store's content, whatever the fault.  The schema's foreign keys are not *)
(* part of controller.py: a DELETE the schema rejects is one of the        *)
(* failures `fault` injects.  rollback(), close() and publish() are taken  *)
(* not to raise.                                                           *)
(*                                                                         *)
(* Three specifications share the handlers:                                *)
(*   Spec      one controller, messages of every kind delivered to it;     *)
(*   SpecBus   two controllers behind the broker, which hands every        *)
(*             published response back to both (SpecBusFair: it does so    *)
(*             eventually);                                                *)
(*   SpecRace  two controllers, one in the "edit" branch and one in the    *)
(*             "delete" branch for the same card, statement by statement   *)
(*             under read committed.                                       *)
(***************************************************************************)
EXTENDS Integers, Sequences, FiniteSets, Bags, TLC

\* ---- bounds of the model ----
MaxId == 2          \* ids handed out by each table's sequence
MaxLog == 2         \* rows of gate_log
MaxRequests == 2    \* external requests delivered while the broker is modelled

\* ---- input alphabets ----
Codes == {"K1", "K2"}
Usernames == {"alice", "bob"}
Absent == "<absent>"                 \* a key missing from the JSON object (None)
CardVals == Codes \cup {"", Absent}
UserVals == Usernames \cup {"", Absent}
ActionVals == {"add", "edit", "delete", "remove", Absent}
Faults == 0..5

\* ---- consts.py / messenger.py (imported, line 4-5) ----
SENDER_NAME == "database_controller"
REGISTER_RESPONSE_ACTIONS == {"add", "edit", "delete"}

build_message(header, body) ==
    [header |-> header, sender |-> SENDER_NAME, action |-> body.action,
     status |-> body.status, card_uuid |-> body.card_uuid, user |-> body.user]

\* variant: the test `value is None` in place of `not value`
Falsy_only_none(v) == v = Absent

\* Python truthiness of a body field: `not value`
Falsy(v) == v = Absent \/ v = ""

\* variant: the two gate ids exchanged
get_gate_id_swapped(gate_code) ==
    IF gate_code = "entry_gate" THEN 2
    ELSE IF gate_code = "departure_gate" THEN 1
    ELSE 0

get_gate_id(gate_code) ==
    IF gate_code = "entry_gate" THEN 1
    ELSE IF gate_code = "departure_gate" THEN 2
    ELSE 0

fetchone(rows) == CHOOSE r \in rows : TRUE

\* variant: the two columns of the card row taken in the other order
unpack_card_row_swapped(card_row) ==
    [card_id |-> card_row.user_id, user_id |-> card_row.id]

\* card_id, user_id = card_row (lines 70, 128)
unpack_card_row(card_row) ==
    [card_id |-> card_row.id, user_id |-> card_row.user_id]

\* conn.commit(): the working copy becomes the committed store
commit(st, tx) == tx

\* variant: a connection in autocommit mode, where rollback undoes nothing
rollback_autocommit(st, tx) == tx

\* conn.rollback(): the working copy is dropped
rollback(st, tx) == st

\* variant: closing the connection commits its pending work
close_commits(st, tx) == tx

\* conn.close() on a connection with uncommitted work drops that work
close(st, tx) == st

\* variant: the close at the end of the try body instead of the finally
\* clause, so that an exception skips it
finally_close_in_try(t) == IF t.raised THEN 0 ELSE t.conns

\* finally: if conn: conn.close() (lines 89-91, 146-148, 262-264): the
\* connections closed when the try statement is left, given what the try
\* body opened
finally_close(t) == t.conns

\* ---- handle_entry ----
\* variant: the not-found branch reports success
entry_card_not_found_ok(st) ==
    [st |-> close(st, st), status |-> TRUE, username |-> "", conns |-> 1,
     faulted |-> FALSE, raised |-> FALSE]

\* "Card not found" (lines 65-68): nothing is written, nothing committed
entry_card_not_found(st) ==
    [st |-> close(st, st), status |-> FALSE, username |-> "", conns |-> 1,
     faulted |-> FALSE, raised |-> FALSE]

\* The try/except/finally block (lines 58-91).  Datastore calls, in order:
\* 1 connect, 2 SELECT card, 3 SELECT parking_user, 4 INSERT gate_log, 5 commit.
entry_try(st, card_uuid, fault) ==
    IF fault = 1
    THEN [st |-> st, status |-> FALSE, username |-> "", conns |-> 0,
          faulted |-> TRUE, raised |-> TRUE]
    ELSE IF fault = 2
    THEN [st |-> close(st, st), status |-> FALSE, username |-> "", conns |-> 1,
          faulted |-> TRUE, raised |-> TRUE]
    ELSE
      LET card_rows == {c \in st.cards : c.card_code = card_uuid} IN
      IF card_rows = {}
      THEN entry_card_not_found(st)
      ELSE
        LET card_row == unpack_card_row(fetchone(card_rows))
            user_rows == {u \in st.users : u.id = card_row.user_id}
            username == IF user_rows = {} THEN "" ELSE fetchone(user_rows).username
            entry_gate_id == get_gate_id("entry_gate")
            tx == [st EXCEPT !.gate_log =
                      @ (+) SetToBag({[gate_id |-> entry_gate_id, card_id |-> card_row.card_id,
                                       is_entry |-> TRUE, status |-> "SUCCESS"]})]
        IN
        IF fault = 3
        THEN [st |-> close(st, st), status |-> FALSE, username |-> "", conns |-> 1,
              faulted |-> TRUE, raised |-> TRUE]
        ELSE IF fault = 4
        THEN [st |-> close(st, st), status |-> FALSE, username |-> "", conns |-> 1,
              faulted |-> TRUE, raised |-> TRUE]
        ELSE IF fault = 5
        THEN [st |-> close(st, tx), status |-> FALSE, username |-> "", conns |-> 1,
              faulted |-> TRUE, raised |-> TRUE]
        ELSE [st |-> commit(st, tx), status |-> TRUE, username |-> username,
              conns |-> 1, faulted |-> FALSE, raised |-> FALSE]

\* What a handler hands back to on_message: the committed store, the messages
\* it published, the connections it opened and closed, whether the injected
\* failure fired, whether its own except clause ran.
Dropped(st) ==
    [st |-> st, out |-> <<>>, conns |-> 0, closed |-> 0,
     faulted |-> FALSE, raised |-> FALSE]

handle_entry(st, body, fault) ==
    LET card_uuid == body.card_uuid IN
    IF Falsy(card_uuid) THEN Dropped(st)
    ELSE
      LET t == entry_try(st, card_uuid, fault)
          message_body == [action |-> "entry", status |-> t.status,
                           card_uuid |-> card_uuid, user |-> t.username]
          db_status_message == build_message("database_status", message_body)
      IN [st |-> t.st, out |-> <<db_status_message>>, conns |-> t.conns,
          closed |-> finally_close(t), faulted |-> t.faulted, raised |-> t.raised]

\* ---- handle_departure ----
\* "Card not found" (lines 123-126)
departure_card_not_found(st) ==
    [st |-> close(st, st), status |-> FALSE, username |-> "", conns |-> 1,
     faulted |-> FALSE, raised |-> FALSE]

\* The try/except/finally block (lines 116-148); the same five datastore calls.
departure_try(st, card_uuid, fault) ==
    IF fault = 1
    THEN [st |-> st, status |-> FALSE, username |-> "", conns |-> 0,
          faulted |-> TRUE, raised |-> TRUE]
    ELSE IF fault = 2
    THEN [st |-> close(st, st), status |-> FALSE, username |-> "", conns |-> 1,
          faulted |-> TRUE, raised |-> TRUE]
    ELSE
      LET card_rows == {c \in st.cards : c.card_code = card_uuid} IN
      IF card_rows = {}
      THEN departure_card_not_found(st)
      ELSE
        LET card_row == unpack_card_row(fetchone(card_rows))
            user_rows == {u \in st.users : u.id = card_row.user_id}
            username == IF user_rows = {} THEN "" ELSE fetchone(user_rows).username
            departure_gate_id == get_gate_id("departure_gate")
            tx == [st EXCEPT !.gate_log =
                      @ (+) SetToBag({[gate_id |-> departure_gate_id, card_id |-> card_row.card_id,
                                       is_entry |-> FALSE, status |-> "SUCCESS"]})]
        IN
        IF fault = 3
        THEN [st |-> close(st, st), status |-> FALSE, username |-> "", conns |-> 1,
              faulted |-> TRUE, raised |-> TRUE]
        ELSE IF fault = 4
        THEN [st |-> close(st, st), status |-> FALSE, username |-> "", conns |-> 1,
              faulted |-> TRUE, raised |-> TRUE]
        ELSE IF fault = 5
        THEN [st |-> close(st, tx), status |-> FALSE, username |-> "", conns |-> 1,
              faulted |-> TRUE, raised |-> TRUE]
        ELSE [st |-> commit(st, tx), status |-> TRUE, username |-> username,
              conns |-> 1, faulted |-> FALSE, raised |-> FALSE]

handle_departure(st, body, fault) ==
    LET card_uuid == body.card_uuid IN
    IF Falsy(card_uuid) THEN Dropped(st)
    ELSE
      LET t == departure_try(st, card_uuid, fault)
          message_body == [action |-> "departure", status |-> t.status,
                           card_uuid |-> card_uuid, user |-> t.username]
          db_status_message == build_message("database_status", message_body)
      IN [st |-> t.st, out |-> <<db_status_message>>, conns |-> t.conns,
          closed |-> finally_close(t), faulted |-> t.faulted, raised |-> t.raised]

\* ---- handle_registration_response ----
\* The branches of the try block hand back the working copy, whether a
\* statement raised (exc), whether that was the injected failure, and the
\* number of datastore calls made so far (connect is the first).

\* unique keys of the schema: parking_user.username, card.card_code
username_taken(tx, username) == \E u \in tx.users : u.username = username
card_code_taken(tx, card_uuid) == \E c \in tx.cards : c.card_code = card_uuid

\* variant: the card insert left out
insert_card_skipped(tx, card_id, card_uuid, user_id) == tx

\* INSERT INTO card (card_code, user_id) (lines 206-209)
insert_card(tx, card_id, card_uuid, user_id) ==
    [tx EXCEPT !.cards = @ \cup {[id |-> card_id, card_code |-> card_uuid,
                                  user_id |-> user_id]}]

\* variant: the card's gate_log rows removed with it (a cascading delete)
delete_card_cascade(tx, card_uuid) ==
    LET gone == {c.id : c \in {d \in tx.cards : d.card_code = card_uuid}}
        kept == {r \in BagToSet(tx.gate_log) : r.card_id \notin gone}
    IN [tx EXCEPT !.cards = {c \in @ : c.card_code # card_uuid},
                  !.gate_log = [r \in kept |-> CopiesIn(r, tx.gate_log)]]

\* DELETE FROM card WHERE card_code = card_uuid (lines 245-248)
delete_card(tx, card_uuid) ==
    [tx EXCEPT !.cards = {c \in @ : c.card_code # card_uuid}]

\* variant: the user row left in place
delete_user_skipped(tx, user_id) == tx

\* DELETE FROM parking_user WHERE id = user_id (lines 250-253)
delete_user(tx, user_id) ==
    [tx EXCEPT !.users = {u \in @ : u.id # user_id}]

\* action == "add" (lines 195-210): 2 INSERT parking_user, 3 INSERT card.
\* Either INSERT raises when it would repeat a unique key.
reg_add(st, card_uuid, username, fault) ==
    IF fault = 2
    THEN [tx |-> st, exc |-> TRUE, faulted |-> TRUE, calls |-> 2]
    ELSE
      LET user_id == st.user_id_seq
          t0 == [st EXCEPT !.user_id_seq = @ + 1]
      IN
      IF username_taken(st, username)
      THEN [tx |-> t0, exc |-> TRUE, faulted |-> FALSE, calls |-> 2]
      ELSE
        LET t1 == [t0 EXCEPT !.users = @ \cup {[id |-> user_id, username |-> username]}] IN
        IF fault = 3
        THEN [tx |-> t1, exc |-> TRUE, faulted |-> TRUE, calls |-> 3]
        ELSE
          LET card_id == t1.card_id_seq
              t2 == [t1 EXCEPT !.card_id_seq = @ + 1]
          IN
          IF card_code_taken(t1, card_uuid)
          THEN [tx |-> t2, exc |-> TRUE, faulted |-> FALSE, calls |-> 3]
          ELSE [tx |-> insert_card(t2, card_id, card_uuid, user_id),
                exc |-> FALSE, faulted |-> FALSE, calls |-> 3]

\* variant: the UPDATE runs without the `if not user_row` test, with a null
\* user id when the username matched nobody
reg_edit_unchecked(st, card_uuid, username, fault) ==
    IF fault = 2
    THEN [tx |-> st, exc |-> TRUE, faulted |-> TRUE, calls |-> 2]
    ELSE
      LET user_rows == {u \in st.users : u.username = username}
          user_id == IF user_rows = {} THEN 0 ELSE fetchone(user_rows).id
      IN
      IF fault = 3
      THEN [tx |-> st, exc |-> TRUE, faulted |-> TRUE, calls |-> 3]
      ELSE [tx |-> [st EXCEPT !.cards =
                       {IF c.card_code = card_uuid
                        THEN [c EXCEPT !.user_id = user_id] ELSE c : c \in @}],
            exc |-> FALSE, faulted |-> FALSE, calls |-> 3]

\* variant: the UPDATE without its WHERE clause
reg_edit_all_cards(st, card_uuid, username, fault) ==
    IF fault = 2
    THEN [tx |-> st, exc |-> TRUE, faulted |-> TRUE, calls |-> 2]
    ELSE
      LET user_rows == {u \in st.users : u.username = username} IN
      IF user_rows = {}
      THEN [tx |-> st, exc |-> FALSE, faulted |-> FALSE, calls |-> 2]
      ELSE
        LET user_id == fetchone(user_rows).id IN
        IF fault = 3
        THEN [tx |-> st, exc |-> TRUE, faulted |-> TRUE, calls |-> 3]
        ELSE [tx |-> [st EXCEPT !.cards = {[c EXCEPT !.user_id = user_id] : c \in @}],
              exc |-> FALSE, faulted |-> FALSE, calls |-> 3]

\* action == "edit" (lines 212-231): 2 SELECT parking_user, 3 UPDATE card.
reg_edit(st, card_uuid, username, fault) ==
    IF fault = 2
    THEN [tx |-> st, exc |-> TRUE, faulted |-> TRUE, calls |-> 2]
    ELSE
      LET user_rows == {u \in st.users : u.username = username} IN
      IF user_rows = {}
      THEN [tx |-> st, exc |-> FALSE, faulted |-> FALSE, calls |-> 2]
      ELSE
        LET user_id == fetchone(user_rows).id IN
        IF fault = 3
        THEN [tx |-> st, exc |-> TRUE, faulted |-> TRUE, calls |-> 3]
        ELSE [tx |-> [st EXCEPT !.cards =
                         {IF c.card_code = card_uuid
                          THEN [c EXCEPT !.user_id = user_id] ELSE c : c \in @}],
              exc |-> FALSE, faulted |-> FALSE, calls |-> 3]

\* action == "delete" (lines 233-254): 2 SELECT card, 3 DELETE card,
\* 4 DELETE parking_user.
reg_delete(st, card_uuid, username, fault) ==
    IF fault = 2
    THEN [tx |-> st, exc |-> TRUE, faulted |-> TRUE, calls |-> 2]
    ELSE
      LET card_rows == {c \in st.cards : c.card_code = card_uuid} IN
      IF card_rows = {}
      THEN [tx |-> st, exc |-> FALSE, faulted |-> FALSE, calls |-> 2]
      ELSE
        LET user_id == fetchone(card_rows).user_id
            t1 == delete_card(st, card_uuid)
            t2 == delete_user(t1, user_id)
        IN
        IF fault = 3
        THEN [tx |-> st, exc |-> TRUE, faulted |-> TRUE, calls |-> 3]
        ELSE IF fault = 4
        THEN [tx |-> t1, exc |-> TRUE, faulted |-> TRUE, calls |-> 4]
        ELSE [tx |-> t2, exc |-> FALSE, faulted |-> FALSE, calls |-> 4]

\* The try/except/finally block (lines 189-264): connect, the branch, commit;
\* status stays False unless the commit returned.
registration_try(st, card_uuid, username, action, fault) ==
    IF fault = 1
    THEN [st |-> st, status |-> FALSE, conns |-> 0, faulted |-> TRUE, raised |-> TRUE]
    ELSE
      LET b == IF action = "add" THEN reg_add(st, card_uuid, username, fault)
               ELSE IF action = "edit" THEN reg_edit(st, card_uuid, username, fault)
               ELSE reg_delete(st, card_uuid, username, fault)
      IN
      IF b.exc
      THEN [st |-> rollback(st, b.tx), status |-> FALSE,
            conns |-> 1, faulted |-> b.faulted, raised |-> TRUE]
      ELSE IF fault = b.calls + 1
      THEN [st |-> rollback(st, b.tx), status |-> FALSE,
            conns |-> 1, faulted |-> TRUE, raised |-> TRUE]
      ELSE [st |-> commit(st, b.tx), status |-> TRUE,
            conns |-> 1, faulted |-> FALSE, raised |-> FALSE]

\* variant: the publish placed inside the try block, after the commit
handle_registration_response_publish_in_try(st, body, fault) ==
    LET card_uuid == body.card_uuid
        username == body.username
        action == body.action
    IN
    IF Falsy(card_uuid) THEN Dropped(st)
    ELSE IF Falsy(username) THEN Dropped(st)
    ELSE IF action \notin REGISTER_RESPONSE_ACTIONS THEN Dropped(st)
    ELSE
      LET t == registration_try(st, card_uuid, username, action, fault)
          message_body == [action |-> action, status |-> t.status,
                           card_uuid |-> card_uuid, user |-> username]
          response_message == build_message("registration_response", message_body)
      IN [st |-> t.st, out |-> IF t.raised THEN <<>> ELSE <<response_message>>,
          conns |-> t.conns, closed |-> finally_close(t), faulted |-> t.faulted,
          raised |-> t.raised]

handle_registration_response(st, body, fault) ==
    LET card_uuid == body.card_uuid
        username == body.username
        action == body.action
    IN
    IF Falsy(card_uuid) THEN Dropped(st)
    ELSE IF Falsy(username) THEN Dropped(st)
    ELSE IF action \notin REGISTER_RESPONSE_ACTIONS THEN Dropped(st)
    ELSE
      LET t == registration_try(st, card_uuid, username, action, fault)
          message_body == [action |-> action, status |-> t.status,
                           card_uuid |-> card_uuid, user |-> username]
          response_message == build_message("registration_response", message_body)
      IN [st |-> t.st, out |-> <<response_message>>, conns |-> t.conns,
          closed |-> finally_close(t), faulted |-> t.faulted, raised |-> t.raised]

\* ---- on_message (lines 18-41) ----
\* msg.payload: "garbage" does not decode as JSON, "nonobject" decodes to a
\* value without .get (a list, a number), "object" decodes to a JSON object.
\* msg.bodyIsDict is FALSE when "body" holds a value without .get.
\* The result adds the handler called, whether an exception left the try
\* body of on_message (escaped), and whether on_message returned to the
\* network loop instead of raising into it (returned).
Ignored(st) ==
    [st |-> st, out |-> <<>>, conns |-> 0, closed |-> 0, faulted |-> FALSE,
     raised |-> FALSE, handler |-> "none", escaped |-> FALSE, returned |-> TRUE]

\* variant: the exception raised again out of on_message
Caught_reraised(st, handler) ==
    [st |-> st, out |-> <<>>, conns |-> 0, closed |-> 0, faulted |-> FALSE,
     raised |-> FALSE, handler |-> handler, escaped |-> TRUE, returned |-> FALSE]

\* except Exception as e: print(...) (lines 40-41)
Caught(st, handler) ==
    [st |-> st, out |-> <<>>, conns |-> 0, closed |-> 0, faulted |-> FALSE,
     raised |-> FALSE, handler |-> handler, escaped |-> TRUE, returned |-> TRUE]

Called(h, handler) ==
    [st |-> h.st, out |-> h.out, conns |-> h.conns, closed |-> h.closed,
     faulted |-> h.faulted, raised |-> h.raised, handler |-> handler,
     escaped |-> FALSE, returned |-> TRUE]

\* variant: the self-filter left out
sent_by_ourselves_never(sender) == FALSE

\* "Ignore messages sent by ourselves" (lines 25-27)
sent_by_ourselves(sender) == sender = SENDER_NAME

\* variant: the last elif taken for a plain else, so that every other header
\* goes to the registration handler
on_message_header_fallthrough(st, msg, fault) ==
    IF msg.payload # "object" THEN Caught(st, "none")
    ELSE IF sent_by_ourselves(msg.sender) THEN Ignored(st)
    ELSE IF msg.topic = "/database"
    THEN
      IF msg.header = "entry"
      THEN IF msg.bodyIsDict
           THEN Called(handle_entry(st, msg.body, fault), "handle_entry")
           ELSE Caught(st, "handle_entry")
      ELSE IF msg.header = "departure"
      THEN IF msg.bodyIsDict
           THEN Called(handle_departure(st, msg.body, fault), "handle_departure")
           ELSE Caught(st, "handle_departure")
      ELSE IF msg.bodyIsDict
           THEN Called(handle_registration_response(st, msg.body, fault),
                       "handle_registration_response")
           ELSE Caught(st, "handle_registration_response")
    ELSE Ignored(st)

on_message(st, msg, fault) ==
    IF msg.payload # "object" THEN Caught(st, "none")
    ELSE IF sent_by_ourselves(msg.sender) THEN Ignored(st)
    ELSE IF msg.topic = "/database"
    THEN
      IF msg.header = "entry"
      THEN IF msg.bodyIsDict
           THEN Called(handle_entry(st, msg.body, fault), "handle_entry")
           ELSE Caught(st, "handle_entry")
      ELSE IF msg.header = "departure"
      THEN IF msg.bodyIsDict
           THEN Called(handle_departure(st, msg.body, fault), "handle_departure")
           ELSE Caught(st, "handle_departure")
      ELSE IF msg.header = "registration_response"
      THEN IF msg.bodyIsDict
           THEN Called(handle_registration_response(st, msg.body, fault),
                       "handle_registration_response")
           ELSE Caught(st, "handle_registration_response")
      ELSE Ignored(st)
    ELSE Ignored(st)

\* users .. card_id_seq: the committed tables and their id sequences;
\* last: the delivery on_message is returning from;
\* bus: the broker's side of topic /database, where it is modelled;
\* race: two instances inside handle_registration_response at the same
\* time, where that is modelled.
VARIABLES users, cards, gate_log, user_id_seq, card_id_seq, last, bus, race

vars == <<users, cards, gate_log, user_id_seq, card_id_seq, last, bus, race>>

Store ==
    [users |-> users, cards |-> cards, gate_log |-> gate_log,
     user_id_seq |-> user_id_seq, card_id_seq |-> card_id_seq]

\* ---- messages delivered on the broker ----
Msg(payload, topic, header, sender, bodyIsDict, card_uuid, username, action) ==
    [payload |-> payload, topic |-> topic, header |-> header, sender |-> sender,
     bodyIsDict |-> bodyIsDict,
     body |-> [card_uuid |-> card_uuid, username |-> username, action |-> action]]

Peer == "server"

EntryMsgs ==
    {Msg("object", "/database", "entry", Peer, TRUE, c, Absent, Absent) : c \in CardVals}

DepartureMsgs ==
    {Msg("object", "/database", "departure", Peer, TRUE, c, Absent, Absent) : c \in CardVals}

\* well-formed registrations, and registrations with one field missing,
\* empty or outside the allowed actions
RegistrationMsgs ==
    {Msg("object", "/database", "registration_response", Peer, TRUE, c, u, a) :
        c \in Codes, u \in Usernames, a \in REGISTER_RESPONSE_ACTIONS} \cup
    {Msg("object", "/database", "registration_response", Peer, TRUE, c, "alice", "add") :
        c \in CardVals \ Codes} \cup
    {Msg("object", "/database", "registration_response", Peer, TRUE, "K1", u, "delete") :
        u \in UserVals \ Usernames} \cup
    {Msg("object", "/database", "registration_response", Peer, TRUE, "K1", "alice", a) :
        a \in ActionVals \ REGISTER_RESPONSE_ACTIONS}

\* requests carrying the controller's own sender name, and the controller's
\* own responses echoed back by the broker
OwnMsgs ==
    {Msg("object", "/database", h, SENDER_NAME, TRUE, "K1", "alice", "add") :
        h \in {"entry", "departure", "registration_response", "database_status"}} \cup
    {Msg("object", "/database", "entry", SENDER_NAME, FALSE, Absent, Absent, Absent),
     Msg("object", "/other", "departure", SENDER_NAME, TRUE, "K2", Absent, Absent)}

UnknownMsgs ==
    {Msg("object", "/database", h, Peer, TRUE, "K1", "alice", "add") :
        h \in {"database_status", Absent}} \cup
    {Msg("object", "/database", "registration", Peer, FALSE, Absent, Absent, Absent)}

OffTopicMsgs ==
    {Msg("object", "/other", h, Peer, TRUE, "K1", "alice", "add") :
        h \in {"entry", "registration_response"}}

BrokenMsgs ==
    {Msg(p, "/database", "entry", Peer, TRUE, "K1", "alice", "add") :
        p \in {"garbage", "nonobject"}} \cup
    {Msg("object", "/database", h, Peer, FALSE, Absent, Absent, Absent) :
        h \in {"entry", "registration_response"}}

NoMsg == Msg("none", Absent, Absent, Absent, FALSE, Absent, Absent, Absent)

\* the response a message got, if any
Status(out) == IF out = <<>> THEN FALSE ELSE out[1].status

Idle ==
    [msg |-> NoMsg, pre |-> [users |-> {}, cards |-> {}, gate_log |-> EmptyBag],
     res |-> [out |-> <<>>, conns |-> 0, closed |-> 0, faulted |-> FALSE,
              raised |-> FALSE, handler |-> "none", escaped |-> FALSE,
              returned |-> TRUE]]

\* ---- the broker ----
\* Controller processes subscribed to /database (on_connect, line 16); they
\* run the same code under the same SENDER_NAME on the same database.
Instances == {1, 2}

\* inflight: published messages the broker still has to deliver, one
\* delivery per subscribed instance; requests: external requests delivered;
\* published: messages the controllers published; echo: publisher and
\* receiver of the delivery `last` describes when it is a re-delivery.
NoEcho == [from |-> 0, to |-> 0]
NoBus == [inflight |-> EmptyBag, requests |-> 0, published |-> 0, echo |-> NoEcho]

\* A published response as it comes back from the broker: json.loads gives
\* an object with header, sender and a body holding action, status,
\* card_uuid and user; the body has no "username" key.
Echo(r) ==
    Msg("object", "/database", r.header, r.sender, TRUE, r.card_uuid, Absent, r.action)

\* client.publish("/database", ...) (lines 101, 158, 274): every subscriber
\* of the topic gets the message, the publisher included
Deliveries(out, from) ==
    IF out = <<>> THEN EmptyBag
    ELSE SetToBag({[msg |-> Echo(out[1]), from |-> from, to |-> i] : i \in Instances})

\* ---- two instances in one handler each ----
\* One instance runs the "edit" branch (e), the other the "delete" branch
\* (d), for the same card_uuid.  Each keeps its position (pc), the user id
\* its SELECT returned, and whether it holds the row lock its UPDATE or
\* DELETE took on the card row; d also keeps the owner the card row had
\* when its DELETE ran.  pre is the committed content when both began.
RaceOff ==
    [on |-> FALSE, card_uuid |-> Absent, username |-> Absent,
     pre |-> [users |-> {}, cards |-> {}],
     e |-> [pc |-> "idle", user_id |-> 0, locked |-> FALSE, status |-> FALSE],
     d |-> [pc |-> "idle", user_id |-> 0, locked |-> FALSE, found |-> FALSE,
            owner_at_delete |-> 0, status |-> FALSE]]

Init ==
    /\ users = {}
    /\ cards = {}
    /\ gate_log = EmptyBag
    /\ user_id_seq = 1
    /\ card_id_seq = MaxId + 1
    /\ last = Idle
    /\ bus = NoBus
    /\ race = RaceOff

\* One delivery: the network loop calls on_message, which runs to completion
\* on the committed store.  last keeps the message, the store before it and
\* what the callback did, until the callback has returned to the loop.
Deliver(msg, fault) ==
    /\ last = Idle
    /\ \E r \in {on_message(Store, msg, fault)} :
        /\ BagCardinality(r.st.gate_log) <= MaxLog
        /\ r.st.user_id_seq <= MaxId + 1
        /\ r.st.card_id_seq <= 2 * MaxId + 1
        /\ users' = r.st.users
        /\ cards' = r.st.cards
        /\ gate_log' = r.st.gate_log
        /\ user_id_seq' = r.st.user_id_seq
        /\ card_id_seq' = r.st.card_id_seq
        /\ last' = [msg |-> msg,
                    pre |-> [users |-> users, cards |-> cards, gate_log |-> gate_log],
                    res |-> [out |-> r.out, conns |-> r.conns, closed |-> r.closed,
                             faulted |-> r.faulted, raised |-> r.raised,
                             handler |-> r.handler, escaped |-> r.escaped,
                             returned |-> r.returned]]

\* Deliveries to one controller, the broker left out of the picture
Entry == \E m \in EntryMsgs, f \in Faults : Deliver(m, f) /\ UNCHANGED <<bus, race>>
Departure == \E m \in DepartureMsgs, f \in Faults : Deliver(m, f) /\ UNCHANGED <<bus, race>>
Registration == \E m \in RegistrationMsgs, f \in Faults : Deliver(m, f) /\ UNCHANGED <<bus, race>>
OwnEcho == \E m \in OwnMsgs : Deliver(m, 0) /\ UNCHANGED <<bus, race>>
UnknownHeader == \E m \in UnknownMsgs : Deliver(m, 0) /\ UNCHANGED <<bus, race>>
OffTopic == \E m \in OffTopicMsgs : Deliver(m, 0) /\ UNCHANGED <<bus, race>>
Broken == \E m \in BrokenMsgs : Deliver(m, 0) /\ UNCHANGED <<bus, race>>

\* on_message has returned; the client waits in loop_forever for the next
\* message (line 297).  An exception raised by the callback would leave
\* loop_forever and end main().
loop_forever ==
    /\ last # Idle
    /\ last.res.returned
    /\ last' = Idle
    /\ UNCHANGED <<users, cards, gate_log, user_id_seq, card_id_seq, bus, race>>

Next ==
    \/ loop_forever
    \/ Entry
    \/ Departure
    \/ Registration
    \/ OwnEcho
    \/ UnknownHeader
    \/ OffTopic
    \/ Broken

Spec == Init /\ [][Next]_vars

\* ---- the controllers with the broker ----
\* What other parties publish on the broker: the requests about one card
\* and one user, well-formed or not
BusRequests ==
    {m \in EntryMsgs \cup DepartureMsgs \cup RegistrationMsgs \cup
            UnknownMsgs \cup OffTopicMsgs \cup BrokenMsgs :
        /\ m.body.card_uuid \in {"K1", Absent}
        /\ m.body.username \in {"alice", Absent}}

\* An external request is delivered to instance i, which runs on_message;
\* what it publishes goes to the broker for delivery to every instance.
Request ==
    \E m \in BusRequests, f \in Faults, i \in Instances :
        /\ bus.requests < MaxRequests
        /\ Deliver(m, f)
        /\ bus' = [inflight |-> bus.inflight (+) Deliveries(last'.res.out, i),
                   requests |-> bus.requests + 1,
                   published |-> bus.published + Len(last'.res.out),
                   echo |-> NoEcho]
        /\ UNCHANGED race

\* The broker delivers a published message to one of its receivers, which
\* runs on_message on it.
Redeliver ==
    \E d \in BagToSet(bus.inflight) :
        /\ Deliver(d.msg, 0)
        /\ bus' = [inflight |-> (bus.inflight (-) SetToBag({d}))
                                   (+) Deliveries(last'.res.out, d.to),
                   requests |-> bus.requests,
                   published |-> bus.published + Len(last'.res.out),
                   echo |-> [from |-> d.from, to |-> d.to]]
        /\ UNCHANGED race

NextBus ==
    \/ loop_forever
    \/ Request
    \/ Redeliver

SpecBus == Init /\ [][NextBus]_vars

\* The broker delivers every message it holds and the callback returns.
SpecBusFair == SpecBus /\ WF_vars(Redeliver) /\ WF_vars(loop_forever)

\* ---- two instances, "edit" and "delete" of one card at the same time ----
\* The database runs the two transactions under read committed: a
\* statement reads what is committed when it runs; an UPDATE or DELETE
\* locks the rows it writes until its transaction ends, and a statement
\* that wants a locked row waits for that and then works on the committed
\* row, if it is still there.  users and cards are the committed content;
\* what a transaction wrote is applied to them at its commit.

\* The store is filled by registrations handled one at a time.
Setup == ~race.on /\ Registration

\* Both instances got their message, passed the field tests and opened
\* their connection (lines 174-193).
Begin ==
    \E card_uuid \in Codes, username \in Usernames :
        /\ last = Idle
        /\ ~race.on
        /\ race' = [RaceOff EXCEPT !.on = TRUE, !.card_uuid = card_uuid,
                                   !.username = username,
                                   !.pre = [users |-> users, cards |-> cards],
                                   !.e.pc = "select", !.d.pc = "select"]
        /\ UNCHANGED <<users, cards, gate_log, user_id_seq, card_id_seq, last, bus>>

\* SELECT id FROM parking_user WHERE username (lines 214-222)
edit_select ==
    /\ race.e.pc = "select"
    /\ LET user_rows == {u \in users : u.username = race.username} IN
       race' = IF user_rows = {}
               THEN [race EXCEPT !.e.pc = "commit"]
               ELSE [race EXCEPT !.e.pc = "update",
                                 !.e.user_id = fetchone(user_rows).id]
    /\ UNCHANGED <<users, cards, gate_log, user_id_seq, card_id_seq, last, bus>>

\* UPDATE card SET user_id WHERE card_code (lines 224-231); waits while the
\* other transaction holds the row
edit_update ==
    /\ race.e.pc = "update"
    /\ ~race.d.locked
    /\ race' = [race EXCEPT !.e.pc = "commit",
                            !.e.locked = \E c \in cards : c.card_code = race.card_uuid]
    /\ UNCHANGED <<users, cards, gate_log, user_id_seq, card_id_seq, last, bus>>

\* conn.commit(); status = True (lines 256-257), close and publish
edit_commit ==
    /\ race.e.pc = "commit"
    /\ cards' = IF race.e.locked
                THEN {IF c.card_code = race.card_uuid
                      THEN [c EXCEPT !.user_id = race.e.user_id] ELSE c : c \in cards}
                ELSE cards
    /\ race' = [race EXCEPT !.e.pc = "done", !.e.locked = FALSE, !.e.status = TRUE]
    /\ UNCHANGED <<users, gate_log, user_id_seq, card_id_seq, last, bus>>

\* SELECT user_id FROM card WHERE card_code (lines 235-243)
delete_select ==
    /\ race.d.pc = "select"
    /\ LET card_rows == {c \in cards : c.card_code = race.card_uuid} IN
       race' = IF card_rows = {}
               THEN [race EXCEPT !.d.pc = "commit"]
               ELSE [race EXCEPT !.d.pc = "delete_card", !.d.found = TRUE,
                                 !.d.user_id = fetchone(card_rows).user_id]
    /\ UNCHANGED <<users, cards, gate_log, user_id_seq, card_id_seq, last, bus>>

\* DELETE FROM card WHERE card_code (lines 245-248); waits while the other
\* transaction holds the row
delete_card_row ==
    /\ race.d.pc = "delete_card"
    /\ ~race.e.locked
    /\ LET card_rows == {c \in cards : c.card_code = race.card_uuid} IN
       race' = [race EXCEPT !.d.pc = "delete_user",
                            !.d.locked = card_rows # {},
                            !.d.owner_at_delete =
                                IF card_rows = {} THEN 0
                                ELSE fetchone(card_rows).user_id]
    /\ UNCHANGED <<users, cards, gate_log, user_id_seq, card_id_seq, last, bus>>

\* DELETE FROM parking_user WHERE id = user_id (lines 250-253)
delete_user_row ==
    /\ race.d.pc = "delete_user"
    /\ race' = [race EXCEPT !.d.pc = "commit"]
    /\ UNCHANGED <<users, cards, gate_log, user_id_seq, card_id_seq, last, bus>>

\* conn.commit(); status = True (lines 256-257), close and publish
delete_commit ==
    /\ race.d.pc = "commit"
    /\ LET tx == IF race.d.found
                 THEN delete_user(delete_card(Store, race.card_uuid), race.d.user_id)
                 ELSE Store
       IN /\ users' = commit(Store, tx).users
          /\ cards' = commit(Store, tx).cards
    /\ race' = [race EXCEPT !.d.pc = "done", !.d.locked = FALSE, !.d.status = TRUE]
    /\ UNCHANGED <<gate_log, user_id_seq, card_id_seq, last, bus>>

\* A datastore call of the edit raises (a statement or the commit):
\* conn.rollback(), close, publish with status still False (lines 258-274)
edit_raise ==
    /\ race.e.pc \in {"select", "update", "commit"}
    /\ race.e.pc = "update" => ~race.d.locked
    /\ LET tx == IF race.e.locked
                 THEN [Store EXCEPT !.cards =
                          {IF c.card_code = race.card_uuid
                           THEN [c EXCEPT !.user_id = race.e.user_id] ELSE c : c \in @}]
                 ELSE Store
       IN cards' = rollback(Store, tx).cards
    /\ race' = [race EXCEPT !.e.pc = "done", !.e.locked = FALSE]
    /\ UNCHANGED <<users, gate_log, user_id_seq, card_id_seq, last, bus>>

\* A datastore call of the delete raises: rollback, close, publish with
\* status still False
delete_raise ==
    /\ race.d.pc \in {"select", "delete_card", "delete_user", "commit"}
    /\ race.d.pc = "delete_card" => ~race.e.locked
    /\ LET tx == IF race.d.locked
                 THEN delete_card(Store, race.card_uuid)
                 ELSE Store
       IN /\ users' = rollback(Store, tx).users
          /\ cards' = rollback(Store, tx).cards
    /\ race' = [race EXCEPT !.d.pc = "done", !.d.locked = FALSE]
    /\ UNCHANGED <<gate_log, user_id_seq, card_id_seq, last, bus>>

NextRace ==
    \/ loop_forever
    \/ Setup
    \/ Begin
    \/ edit_select
    \/ edit_update
    \/ edit_commit
    \/ edit_raise
    \/ delete_select
    \/ delete_card_row
    \/ delete_user_row
    \/ delete_commit
    \/ delete_raise

SpecRace == Init /\ [][NextRace]_vars

\* ======================= properties ========================================
\* Vocabulary of the properties: the delivery last describes.
Handled == last # Idle
Now == [users |-> users, cards |-> cards, gate_log |-> gate_log]
Out == last.res.out
Body == last.msg.body

\* the message passed the decode, the self-filter and the topic test with a
\* body that is a JSON object, so its header decides the handler
Dispatched ==
    /\ Handled
    /\ last.msg.payload = "object"
    /\ last.msg.sender # SENDER_NAME
    /\ last.msg.topic = "/database"
    /\ last.msg.bodyIsDict

IsEntry == Dispatched /\ last.msg.header = "entry"
IsDeparture == Dispatched /\ last.msg.header = "departure"
IsRegistration == Dispatched /\ last.msg.header = "registration_response"
IsAction(a) == IsRegistration /\ Body.action = a

Present(v) == v # Absent /\ v # ""
ValidGateBody == Present(Body.card_uuid)
ValidRegistrationBody ==
    /\ Present(Body.card_uuid)
    /\ Present(Body.username)
    /\ Body.action \in {"add", "edit", "delete"}

Response(header, action, status, card_uuid, user) ==
    [header |-> header, sender |-> SENDER_NAME, action |-> action,
     status |-> status, card_uuid |-> card_uuid, user |-> user]

GateRow(gate_id, card_id, is_entry) ==
    [gate_id |-> gate_id, card_id |-> card_id, is_entry |-> is_entry,
     status |-> "SUCCESS"]

\* C1: every dispatched message that passes field validation gets exactly one
\* response, whatever the outcome: database_status for entry and departure,
\* registration_response for registration.
C1_OneResponsePerValidRequest ==
    /\ (IsEntry \/ IsDeparture) /\ ValidGateBody
         => Len(Out) = 1 /\ Out[1].header = "database_status"
    /\ IsRegistration /\ ValidRegistrationBody
         => Len(Out) = 1 /\ Out[1].header = "registration_response"

\* a registration whose datastore call raised, answered once
C1_Witness ==
    /\ IsRegistration /\ ValidRegistrationBody
    /\ last.res.raised
    /\ Len(Out) = 1

\* C2: a malformed request is dropped locally: no connection is opened, the
\* store is unchanged and nothing is published.
C2_MalformedDropped ==
    \/ (IsEntry \/ IsDeparture) /\ ~ValidGateBody
    \/ IsRegistration /\ ~ValidRegistrationBody
    => /\ last.res.conns = 0
       /\ Now = last.pre
       /\ Out = <<>>

\* a registration with an action outside {add, edit, delete}, on a store that
\* holds the card it names
C2_Witness ==
    /\ IsRegistration
    /\ Body.action = "remove"
    /\ \E c \in cards : c.card_code = Body.card_uuid
    /\ Out = <<>>

\* C3: a message whose sender is the controller's own identity reaches no
\* handler: no datastore access, no store change, no response.
C3_OwnMessagesIgnored ==
    Handled /\ last.msg.payload = "object" /\ last.msg.sender = SENDER_NAME
    => /\ last.res.handler = "none"
       /\ last.res.conns = 0
       /\ Now = last.pre
       /\ Out = <<>>

\* a well-formed "add" registration under the controller's own sender name
C3_Witness ==
    /\ Handled
    /\ last.msg.sender = SENDER_NAME
    /\ last.msg.header = "registration_response"
    /\ last.msg.body.action = "add"
    /\ Out = <<>>

\* C4: entry or departure with a non-empty code that matches no card
\* publishes database_status with status false, user "" and the request's
\* card_uuid, and leaves gate_log as it was.
C4_UnknownCardRejected ==
    /\ (IsEntry \/ IsDeparture)
    /\ ValidGateBody
    /\ ~\E c \in last.pre.cards : c.card_code = Body.card_uuid
    => /\ Out = <<Response("database_status", last.msg.header, FALSE,
                           Body.card_uuid, "")>>
       /\ gate_log = last.pre.gate_log

\* a departure for an unknown code while another card is registered
C4_Witness ==
    /\ IsDeparture
    /\ ValidGateBody
    /\ ~\E c \in last.pre.cards : c.card_code = Body.card_uuid
    /\ last.pre.cards # {}
    /\ ~last.res.faulted
    /\ Len(Out) = 1

\* C5: when no datastore call fails, entry and departure for a code present
\* in the store each add exactly one gate_log row with that card's id and
\* status "SUCCESS" (entry: is_entry true, gate 1; departure: is_entry false,
\* gate 2) and publish status true with the username of the card's owner.
C5_GateEventLogged ==
    \A c \in last.pre.cards :
        /\ (IsEntry \/ IsDeparture)
        /\ c.card_code = Body.card_uuid
        /\ ~last.res.faulted
        => /\ IsEntry =>
                gate_log = last.pre.gate_log (+) SetToBag({GateRow(1, c.id, TRUE)})
           /\ IsDeparture =>
                gate_log = last.pre.gate_log (+) SetToBag({GateRow(2, c.id, FALSE)})
           /\ users = last.pre.users /\ cards = last.pre.cards
           /\ Len(Out) = 1
           /\ Out[1].header = "database_status"
           /\ Out[1].action = last.msg.header
           /\ Out[1].status = TRUE
           /\ Out[1].card_uuid = c.card_code
           /\ \A u \in last.pre.users : u.id = c.user_id => Out[1].user = u.username

\* a departure logged for a card whose entry is already in gate_log
C5_Witness ==
    \E c \in last.pre.cards, u \in last.pre.users :
        /\ IsDeparture
        /\ c.card_code = Body.card_uuid
        /\ u.id = c.user_id
        /\ BagIn(GateRow(1, c.id, TRUE), last.pre.gate_log)
        /\ BagIn(GateRow(2, c.id, FALSE), gate_log)
        /\ Status(Out)

\* C6: when no datastore call fails, "add" with a username and a card code
\* that are both absent creates exactly one user with that username and one
\* card with that code bound to the new user, changes nothing else, and
\* publishes registration_response with status true, the card_uuid and the
\* username.
C6_AddCreatesPair ==
    /\ IsAction("add")
    /\ ValidRegistrationBody
    /\ ~last.res.faulted
    /\ ~\E u \in last.pre.users : u.username = Body.username
    /\ ~\E c \in last.pre.cards : c.card_code = Body.card_uuid
    => /\ \E u \in users, c \in cards :
            /\ u \notin last.pre.users
            /\ u.username = Body.username
            /\ ~\E v \in last.pre.users : v.id = u.id
            /\ users = last.pre.users \cup {u}
            /\ c \notin last.pre.cards
            /\ c.card_code = Body.card_uuid
            /\ c.user_id = u.id
            /\ ~\E d \in last.pre.cards : d.id = c.id
            /\ cards = last.pre.cards \cup {c}
       /\ Cardinality(users) = Cardinality(last.pre.users) + 1
       /\ Cardinality(cards) = Cardinality(last.pre.cards) + 1
       /\ gate_log = last.pre.gate_log
       /\ Out = <<Response("registration_response", "add", TRUE,
                           Body.card_uuid, Body.username)>>

\* a second pair added next to an existing one
C6_Witness ==
    /\ IsAction("add")
    /\ last.pre.users # {}
    /\ Cardinality(users) = 2
    /\ Cardinality(cards) = 2
    /\ Status(Out)

\* C7: "add" is atomic: when the username or the card code already exists,
\* or an insert or the commit fails on its own, the users and the cards are
\* what they were before the message and the response reports status false.
C7_AddAtomic ==
    /\ IsAction("add")
    /\ ValidRegistrationBody
    /\ \/ \E u \in last.pre.users : u.username = Body.username
       \/ \E c \in last.pre.cards : c.card_code = Body.card_uuid
       \/ last.res.faulted
    => /\ users = last.pre.users
       /\ cards = last.pre.cards
       /\ Len(Out) = 1
       /\ Out[1].status = FALSE

\* the user insert went through and the card insert hit the unique card code
C7_Witness ==
    /\ IsAction("add")
    /\ ~\E u \in last.pre.users : u.username = Body.username
    /\ \E c \in last.pre.cards : c.card_code = Body.card_uuid
    /\ ~last.res.faulted
    /\ last.res.raised

C9_EditUnknownUserNoOp ==
    /\ IsAction("edit")
    /\ ValidRegistrationBody
    /\ ~\E u \in last.pre.users : u.username = Body.username
    => /\ Now = last.pre
       /\ ~last.res.escaped
       /\ Len(Out) = 1
       /\ Out[1].header = "registration_response"
       /\ Out[1].action = "edit"
       /\ Out[1].card_uuid = Body.card_uuid

\* the card named by the edit exists and has an owner
C9_Witness ==
    /\ IsAction("edit")
    /\ ~\E u \in last.pre.users : u.username = Body.username
    /\ \E c \in cards, u \in users : c.card_code = Body.card_uuid /\ c.user_id = u.id
    /\ ~last.res.faulted
    /\ Len(Out) = 1

\* C10: when "edit" finds no user with the given username and no datastore
\* call fails, the published status is the value status had before the
\* action branch ran (false).
C10_EditUnknownUserStatusDefault ==
    /\ IsAction("edit")
    /\ ValidRegistrationBody
    /\ ~\E u \in last.pre.users : u.username = Body.username
    /\ ~last.res.faulted
    => /\ Len(Out) = 1
       /\ Out[1].status = FALSE

\* C11: "edit" only reassigns ownership: whatever the store, the card_uuid,
\* the username and the outcome of the datastore calls, the users, the card
\* codes and the card ids after the handler are those before it, gate_log
\* is untouched, every card with another code is unchanged, and the card
\* with code card_uuid either is unchanged or differs only in its user_id,
\* which is then the id of the user named username.
C11_EditOnlyReassigns ==
    IsAction("edit") /\ ValidRegistrationBody
    => /\ users = last.pre.users
       /\ {c.card_code : c \in cards} = {c.card_code : c \in last.pre.cards}
       /\ {c.id : c \in cards} = {c.id : c \in last.pre.cards}
       /\ Cardinality(cards) = Cardinality(last.pre.cards)
       /\ gate_log = last.pre.gate_log
       /\ \A c \in last.pre.cards : c.card_code # Body.card_uuid => c \in cards
       /\ \A c \in cards \ last.pre.cards :
            /\ c.card_code = Body.card_uuid
            /\ \E d \in last.pre.cards : d.id = c.id /\ d.card_code = c.card_code
            /\ \E u \in users : u.username = Body.username /\ u.id = c.user_id

\* one of two cards handed from its owner to the other user
C11_Witness ==
    \E c \in cards, d \in last.pre.cards, u \in users :
        /\ IsAction("edit")
        /\ Cardinality(cards) = 2
        /\ c.card_code = Body.card_uuid
        /\ d.card_code = Body.card_uuid
        /\ u.username = Body.username
        /\ d.user_id # u.id
        /\ c.user_id = u.id
        /\ Status(Out)

\* C12: every gate_log row an entry or a departure writes carries the id of
\* a card that the store held under the request's card_uuid when the handler
\* ran; no row is written with a card id that was not read from the store.
C12_GateEventReferencesFoundCard ==
    (IsEntry \/ IsDeparture)
    => \A r \in BagToSet(gate_log) :
         CopiesIn(r, gate_log) > CopiesIn(r, last.pre.gate_log)
         => \E c \in last.pre.cards :
              /\ c.card_code = Body.card_uuid
              /\ c.id = r.card_id

\* an entry logged for the second of two cards
C12_Witness ==
    \E c \in last.pre.cards, d \in last.pre.cards :
        /\ IsEntry
        /\ c.card_code = Body.card_uuid
        /\ d.id < c.id
        /\ CopiesIn(GateRow(1, c.id, TRUE), gate_log)
             = CopiesIn(GateRow(1, c.id, TRUE), last.pre.gate_log) + 1

\* C13: gate_log is append-only: no step of the controller, whatever the
\* message, removes or changes a row; every row of one state is a row of
\* the next state, as many times.
C13_GateLogAppendOnly ==
    [][\A r \in BagToSet(gate_log) : CopiesIn(r, gate_log') >= CopiesIn(r, gate_log)]_vars

\* a card that had passed the gate is deleted and its gate_log row is kept
C13_Witness ==
    \E c \in last.pre.cards :
        /\ IsAction("delete")
        /\ c.card_code = Body.card_uuid
        /\ c \notin cards
        /\ \E r \in BagToSet(gate_log) : r.card_id = c.id

C15_FailureLeavesNoPartialWrite ==
    Dispatched /\ last.res.raised
    => /\ Now = last.pre
       /\ Len(Out) = 1
       /\ Out[1].status = FALSE
       /\ (IsEntry \/ IsDeparture) => Out[1].user = ""

\* a delete of a registered pair in which a datastore call raised after the
\* connection was opened
C15_Witness ==
    /\ IsAction("delete")
    /\ last.res.raised
    /\ last.res.conns = 1
    /\ \E c \in cards, u \in users : c.card_code = Body.card_uuid /\ u.id = c.user_id
    /\ Len(Out) = 1

\* C16: no message is fatal.  Whatever was delivered, on_message returns to
\* the network loop.  After a message that failed (undecodable payload,
\* body that is no object, malformed fields, unknown header or topic, a
\* datastore call raising), the next message is handled as if the failed
\* one had never arrived: on_message gives the same store, the same
\* response and the same connection use as on the store before it (which
\* is immediate when the failed message left the store as it was).
PreStore ==
    [users |-> last.pre.users, cards |-> last.pre.cards,
     gate_log |-> last.pre.gate_log,
     user_id_seq |-> user_id_seq, card_id_seq |-> card_id_seq]

FollowUps ==
    {Msg("object", "/database", h, Peer, TRUE, "K1", Absent, Absent) :
        h \in {"entry", "departure"}} \cup
    {Msg("object", "/database", "registration_response", Peer, TRUE, "K1", "alice", a) :
        a \in REGISTER_RESPONSE_ACTIONS}

Failed ==
    /\ Handled
    /\ \/ last.res.escaped
       \/ last.res.raised
       \/ last.res.handler = "none"
       \/ Out = <<>>

C16_NoMessageFatal ==
    /\ Handled => last.res.returned
    /\ Failed =>
         \/ Store = PreStore
         \/ \A m \in FollowUps : on_message(Store, m, 0) = on_message(PreStore, m, 0)

\* an undecodable payload arrived while a pair was registered
C16_Witness ==
    /\ Handled
    /\ last.msg.payload = "garbage"
    /\ last.res.escaped
    /\ \E c \in cards, u \in users : c.card_code = "K1" /\ u.id = c.user_id

\* C17: a message on /database whose header is none of entry, departure,
\* registration_response is discarded: on_message returns without an
\* exception, no handler runs, no connection is opened, the store is
\* unchanged and nothing is published.
C17_UnknownHeaderDiscarded ==
    /\ Handled
    /\ last.msg.payload = "object"
    /\ last.msg.topic = "/database"
    /\ last.msg.header \notin {"entry", "departure", "registration_response"}
    => /\ last.res.handler = "none"
       /\ ~last.res.escaped
       /\ last.res.returned
       /\ last.res.conns = 0
       /\ Now = last.pre
       /\ Out = <<>>

\* a peer's message with header database_status and the body of a valid
\* "add", on a store where that add would have gone through
C17_Witness ==
    /\ Handled
    /\ last.msg.sender = Peer
    /\ last.msg.topic = "/database"
    /\ last.msg.header = "database_status"
    /\ Body.action = "add"
    /\ ~\E u \in users : u.username = Body.username
    /\ ~\E c \in cards : c.card_code = Body.card_uuid
    /\ Out = <<>>

Redelivered == Handled /\ bus.echo # NoEcho

RaceDone == race.on /\ race.e.pc = "done" /\ race.d.pc = "done"

\* C20 (as amended): with "edit" and "delete" of one card_uuid running at
\* the same time under read committed, every interleaving in which the
\* delete found the card and reports status true ends with the card row
\* removed, every other card untouched, and exactly the user removed that
\* the delete's own SELECT returned as owner.  That user is the owner the
\* card had before the two began or the user the edit names; the owner the
\* card row had when it was deleted is that user or the user the edit
\* names, and when the two differ the edit has committed and its user keeps
\* its row.  In every other interleaving no row is removed and the card is
\* at most reassigned by a committed edit.
C20_DeleteRemovesOwnerItRead ==
    RaceDone
    => /\ race.d.found /\ race.d.status =>
            /\ cards = {c \in race.pre.cards : c.card_code # race.card_uuid}
            /\ users = {u \in race.pre.users : u.id # race.d.user_id}
            /\ \/ \E c \in race.pre.cards :
                    c.card_code = race.card_uuid /\ c.user_id = race.d.user_id
               \/ race.e.status /\ race.d.user_id = race.e.user_id
            /\ race.d.owner_at_delete \in {race.d.user_id, race.e.user_id}
            /\ race.d.owner_at_delete # race.d.user_id
                 => /\ race.e.status
                    /\ \E u \in users : /\ u.id = race.d.owner_at_delete
                                         /\ u.username = race.username
       /\ ~(race.d.found /\ race.d.status) =>
            /\ users = race.pre.users
            /\ {c.id : c \in cards} = {c.id : c \in race.pre.cards}
            /\ \A c \in cards \ race.pre.cards :
                 /\ race.e.status
                 /\ c.card_code = race.card_uuid
                 /\ c.user_id = race.e.user_id
       /\ race.d.status =>
            (race.d.found <=> \E c \in race.pre.cards : c.card_code = race.card_uuid)

\* the edit committed between the delete's SELECT and its DELETE: the card's
\* previous owner is gone and the new owner is still there
C20_Witness ==
    /\ RaceDone
    /\ race.d.found
    /\ race.d.status
    /\ race.d.owner_at_delete # race.d.user_id
    /\ ~\E u \in users : u.id = race.d.user_id
    /\ \E u \in users : u.id = race.d.owner_at_delete

\* C20 (as stated): every interleaving of "edit" and "delete" of one
\* card_uuid ends with the card removed together with the user that owned
\* it when the card row was deleted; the delete never removes a user that
\* no longer owned the card while the new owner stays.
C20_DeleteRemovesOwnerAtDelete ==
    RaceDone /\ race.d.found /\ race.d.status
    => /\ ~\E c \in cards : c.card_code = race.card_uuid
       /\ users = {u \in race.pre.users : u.id # race.d.owner_at_delete}

====
